---- MODULE Spec2Model ----
(***************************************************************************)
(* A model of the actors of okeeffed/demo-xstate-store: the job pipeline   *)
(* machine (src/xstate-simulate-job.ts, driven by events, and              *)
(* src/simluate-jobs-effect-xstate.ts, driven by invoked promises), its    *)
(* JSON snapshot persistence and stop/restart, and the example stores.     *)
(***************************************************************************)
EXTENDS Integers, Sequences, FiniteSets, TLC

\* ------------------------------------------------------------------------
\* Bounds of the model: how many distinct payload strings the events carry.
MaxAssetIds == 2
MaxUrls == 2
MaxMessages == 2

\* ------------------------------------------------------------------------
\* JavaScript values: null, undefined, booleans, strings and plain objects
\* (an object keeps its keys in insertion order).
JNull == [t |-> "null"]
JUndef == [t |-> "undefined"]
JBool(b) == [t |-> "boolean", b |-> b]
JStr(s) == [t |-> "string", s |-> s]
JObj(keys, props) == [t |-> "object", keys |-> keys, props |-> props]

\* obj.k : reading a property the object does not have gives undefined
Get(obj, k) ==
  IF obj.t = "object" /\ k \in DOMAIN obj.props THEN obj.props[k] ELSE JUndef

\* !v
Falsy(v) ==
  \/ v.t \in {"null", "undefined"}
  \/ v.t = "boolean" /\ ~v.b
  \/ v.t = "string" /\ v.s = ""

AssetIds == {JStr("asset" \o ToString(i)) : i \in 1..MaxAssetIds}
Urls == {JStr("https://example.com/asset" \o ToString(i)) : i \in 1..MaxUrls}
Messages == {JStr("Failed " \o ToString(i)) : i \in 1..MaxMessages}

\* ------------------------------------------------------------------------
\* The job machine definition.

JobContext ==
  [assetId : {JNull} \cup AssetIds,
   uploadUrl : {JNull} \cup Urls,
   emailSent : {JBool(FALSE), JBool(TRUE)},
   error : {JNull} \cup Messages]

initialContext ==
  [assetId |-> JNull, uploadUrl |-> JNull, emailSent |-> JBool(FALSE),
   error |-> JNull]

StateIds ==
  {"start", "creatingAsset", "uploadingAsset", "emailingClient", "complete",
   "error"}

IsFinal(value) == value = "complete"

\* JobEvents of the event-driven machine
JobEvents ==
  {[type |-> "CREATE_ASSET"], [type |-> "UPLOAD_ASSET"],
   [type |-> "EMAIL_CLIENT"], [type |-> "EMAIL_SENT"], [type |-> "RETRY"]}
  \cup {[type |-> "ASSET_CREATED", assetId |-> a] : a \in AssetIds}
  \cup {[type |-> "ASSET_UPLOADED", uploadUrl |-> u] : u \in Urls}
  \cup {[type |-> "ERROR", message |-> m] : m \in Messages}

\* JobEvents of the invoked machine
InvokedJobEvents ==
  {[type |-> "CREATE_ASSET"], [type |-> "UPLOAD_ASSET"],
   [type |-> "EMAIL_CLIENT"], [type |-> "RETRY"]}

DoneType(src) == "xstate.done.actor." \o src
ErrorType(src) == "xstate.error.actor." \o src
IsErrorActorEvent(event) ==
  event.type \in {ErrorType(s) : s \in {"createAsset", "uploadAsset", "emailClient"}}

\* one transition candidate: target, guard and assign action, by name
Cand(target, guard, action) ==
  [target |-> target, guard |-> guard, action |-> action]

RetryChainFromScratch == << Cand("creatingAsset", "always", "none") >>

\* the RETRY candidates of the error state, in declaration order
RetryChain ==
  << Cand("creatingAsset", "assetIdIsNull", "none"),
     Cand("uploadingAsset", "needsUpload", "none"),
     Cand("emailingClient", "needsEmail", "none") >>

\* states.<value>.on[<type>] of the event-driven machine
jobMachine(value, type) ==
  CASE value = "start" /\ type = "CREATE_ASSET" ->
         << Cand("creatingAsset", "always", "none") >>
    [] value = "creatingAsset" /\ type = "ASSET_CREATED" ->
         << Cand("uploadingAsset", "always", "assignAssetId") >>
    [] value = "uploadingAsset" /\ type = "ASSET_UPLOADED" ->
         << Cand("emailingClient", "always", "assignUploadUrl") >>
    [] value = "emailingClient" /\ type = "EMAIL_SENT" ->
         << Cand("complete", "always", "assignEmailSent") >>
    [] value \in {"creatingAsset", "uploadingAsset", "emailingClient"}
         /\ type = "ERROR" ->
         << Cand("error", "always", "assignError") >>
    [] value = "error" /\ type = "RETRY" -> RetryChain
    [] OTHER -> << >>

\* states.<value>.invoke.src of the invoked machine
InvokeSrc(value) ==
  CASE value = "creatingAsset" -> "createAsset"
    [] value = "uploadingAsset" -> "uploadAsset"
    [] value = "emailingClient" -> "emailClient"
    [] OTHER -> "none"

\* states.<value>.on[<type>] and invoke.onDone / invoke.onError of the
\* invoked machine
invokedJobMachine(value, type) ==
  CASE value = "start" /\ type = "CREATE_ASSET" ->
         << Cand("creatingAsset", "always", "none") >>
    [] value = "creatingAsset" /\ type = DoneType("createAsset") ->
         << Cand("uploadingAsset", "always", "assignOutputAssetId") >>
    [] value = "uploadingAsset" /\ type = DoneType("uploadAsset") ->
         << Cand("emailingClient", "always", "assignOutputUploadUrl") >>
    [] value = "emailingClient" /\ type = DoneType("emailClient") ->
         << Cand("complete", "always", "assignOutputEmailSent") >>
    [] InvokeSrc(value) # "none" /\ type = ErrorType(InvokeSrc(value)) ->
         << Cand("error", "always", "assignErrorMessage") >>
    [] value = "error" /\ type = "RETRY" -> RetryChain
    [] OTHER -> << >>

CandidatesRestartable(m, value, type) ==
  IF type = "CREATE_ASSET" /\ ~IsFinal(value)
  THEN << Cand("creatingAsset", "always", "none") >>
  ELSE IF m = "invoked" THEN invokedJobMachine(value, type)
  ELSE jobMachine(value, type)

Candidates(m, value, type) ==
  IF m = "invoked" THEN invokedJobMachine(value, type)
  ELSE jobMachine(value, type)

GuardEmailAlreadySent(name, context, event) ==
  CASE name = "always" -> TRUE
    [] name = "assetIdIsNull" -> context.assetId = JNull
    [] name = "needsUpload" ->
         context.assetId # JNull /\ context.uploadUrl = JNull
    [] name = "needsEmail" ->
         context.uploadUrl # JNull /\ ~Falsy(context.emailSent)

\* guard: ({ context }) => ...
Guard(name, context, event) ==
  CASE name = "always" -> TRUE
    [] name = "assetIdIsNull" -> context.assetId = JNull
    [] name = "needsUpload" ->
         context.assetId # JNull /\ context.uploadUrl = JNull
    [] name = "needsEmail" ->
         context.uploadUrl # JNull /\ Falsy(context.emailSent)

AssignKeepingError(name, context, event) ==
  CASE name = "none" -> context
    [] name = "assignAssetId" -> [context EXCEPT !.assetId = event.assetId]
    [] name = "assignUploadUrl" ->
         [context EXCEPT !.uploadUrl = event.uploadUrl]
    [] name = "assignEmailSent" -> [context EXCEPT !.emailSent = JBool(TRUE)]
    [] name = "assignError" -> [context EXCEPT !.error = event.message]
    [] name = "assignOutputAssetId" ->
         [context EXCEPT !.assetId = event.output.assetId]
    [] name = "assignOutputUploadUrl" ->
         [context EXCEPT !.uploadUrl = event.output.uploadUrl]
    [] name = "assignOutputEmailSent" ->
         [context EXCEPT !.emailSent = event.output.emailSent]
    [] name = "assignErrorMessage" ->
         [context EXCEPT !.error = event.error.message]

AssignErrorDroppingProgress(name, context, event) ==
  CASE name = "none" -> context
    [] name = "assignAssetId" ->
         [context EXCEPT !.assetId = event.assetId, !.error = JNull]
    [] name = "assignUploadUrl" ->
         [context EXCEPT !.uploadUrl = event.uploadUrl, !.error = JNull]
    [] name = "assignEmailSent" ->
         [context EXCEPT !.emailSent = JBool(TRUE), !.error = JNull]
    [] name = "assignError" ->
         [initialContext EXCEPT !.error = event.message]
    [] name = "assignOutputAssetId" ->
         [context EXCEPT !.assetId = event.output.assetId, !.error = JNull]
    [] name = "assignOutputUploadUrl" ->
         [context EXCEPT !.uploadUrl = event.output.uploadUrl, !.error = JNull]
    [] name = "assignOutputEmailSent" ->
         [context EXCEPT !.emailSent = event.output.emailSent, !.error = JNull]
    [] name = "assignErrorMessage" ->
         [initialContext EXCEPT !.error = event.error.message]

\* actions: assign({...})
Assign(name, context, event) ==
  CASE name = "none" -> context
    [] name = "assignAssetId" ->
         [context EXCEPT !.assetId = event.assetId, !.error = JNull]
    [] name = "assignUploadUrl" ->
         [context EXCEPT !.uploadUrl = event.uploadUrl, !.error = JNull]
    [] name = "assignEmailSent" ->
         [context EXCEPT !.emailSent = JBool(TRUE), !.error = JNull]
    [] name = "assignError" ->
         [context EXCEPT !.error = event.message]
    [] name = "assignOutputAssetId" ->
         [context EXCEPT !.assetId = event.output.assetId, !.error = JNull]
    [] name = "assignOutputUploadUrl" ->
         [context EXCEPT !.uploadUrl = event.output.uploadUrl, !.error = JNull]
    [] name = "assignOutputEmailSent" ->
         [context EXCEPT !.emailSent = event.output.emailSent, !.error = JNull]
    [] name = "assignErrorMessage" ->
         [context EXCEPT !.error = event.error.message]

\* ------------------------------------------------------------------------
\* The transition engine (the machine's transition logic that actor.send
\* runs).

MinOf(S) == CHOOSE i \in S : \A j \in S : i <= j
MaxOf(S) == CHOOSE i \in S : \A j \in S : i >= j

EnabledCandidates(cands, context, event) ==
  {i \in 1..Len(cands) : Guard(cands[i].guard, context, event)}

SelectLastCandidate(cands, context, event) ==
  LET en == EnabledCandidates(cands, context, event)
  IN IF en = {} THEN 0 ELSE MaxOf(en)

\* the candidates are tried in declaration order; 0 when no guard passes
SelectCandidate(cands, context, event) ==
  LET en == EnabledCandidates(cands, context, event)
  IN IF en = {} THEN 0 ELSE MinOf(en)

Snapshot(status, value, context) ==
  [status |-> status, value |-> value, context |-> context,
   output |-> JUndef, error |-> JUndef]

initialSnapshot == Snapshot("active", "start", initialContext)

StatusAlwaysActive(target) == "active"

StatusAfter(target) == IF IsFinal(target) THEN "done" ELSE "active"

TransitionErrorIsTerminal(m, snapshot, event) ==
  LET cands == Candidates(m, snapshot.value, event.type)
      i == SelectCandidate(cands, snapshot.context, event)
  IN IF i = 0 THEN snapshot
     ELSE [snapshot EXCEPT
             !.status = IF cands[i].target = "error" THEN "error"
                        ELSE StatusAfter(cands[i].target),
             !.value = cands[i].target,
             !.context = Assign(cands[i].action, snapshot.context, event)]

\* one macrostep: the snapshot after `event`
Transition(m, snapshot, event) ==
  LET cands == Candidates(m, snapshot.value, event.type)
      i == SelectCandidate(cands, snapshot.context, event)
  IN IF i = 0
     THEN IF IsErrorActorEvent(event)
          THEN [snapshot EXCEPT !.status = "error", !.error = event.error]
          ELSE snapshot
     ELSE [snapshot EXCEPT
             !.status = StatusAfter(cands[i].target),
             !.value = cands[i].target,
             !.context = Assign(cands[i].action, snapshot.context, event)]

\* ------------------------------------------------------------------------
\* The actor: processing status, current snapshot, whether the program's
\* subscriber is attached, and whether it was created from a saved
\* snapshot.  Each operation gives the actor after it and the snapshots it
\* handed to the subscriber's next().

Actor(proc, snapshot, restored) ==
  [proc |-> proc, snapshot |-> snapshot, observers |-> FALSE,
   restored |-> restored]

\* createActor(jobMachine)
createActor == Actor("NotStarted", initialSnapshot, FALSE)

\* actor.subscribe(...)
Subscribe(a) == [a EXCEPT !.observers = TRUE]

Outcome(a, next) == [actor |-> a, next |-> next]

\* the actor ends: observers are released
Complete(a) == [a EXCEPT !.proc = "Stopped", !.observers = FALSE]

UpdateOnlyOnChange(a, snapshot) ==
  CASE snapshot.status = "active" ->
         Outcome([a EXCEPT !.snapshot = snapshot],
                 IF snapshot = a.snapshot THEN << >> ELSE << snapshot >>)
    [] snapshot.status = "done" ->
         Outcome(Complete([a EXCEPT !.snapshot = snapshot]), << snapshot >>)
    [] snapshot.status = "error" ->
         Outcome(Complete([a EXCEPT !.snapshot = snapshot]), << >>)
    [] OTHER -> Outcome([a EXCEPT !.snapshot = snapshot], << >>)

\* update(snapshot): publish an active or done snapshot; a done or errored
\* snapshot ends the actor
Update(a, snapshot) ==
  CASE snapshot.status = "active" ->
         Outcome([a EXCEPT !.snapshot = snapshot], << snapshot >>)
    [] snapshot.status = "done" ->
         Outcome(Complete([a EXCEPT !.snapshot = snapshot]), << snapshot >>)
    [] snapshot.status = "error" ->
         Outcome(Complete([a EXCEPT !.snapshot = snapshot]), << >>)
    [] OTHER -> Outcome([a EXCEPT !.snapshot = snapshot], << >>)

\* actor.start()
ActorStart(a) ==
  IF a.proc = "Running" THEN Outcome(a, << >>)
  ELSE Update([a EXCEPT !.proc = "Running"], a.snapshot)

ActorSendWhenStopped(m, a, event) ==
  IF a.proc = "NotStarted" THEN Outcome(a, << >>)
  ELSE Update(a, Transition(m, a.snapshot, event))

\* actor.send(event) on a started actor; a stopped actor drops the event
ActorSend(m, a, event) ==
  IF a.proc # "Running" THEN Outcome(a, << >>)
  ELSE Update(a, Transition(m, a.snapshot, event))

\* actor.stop(): the stopped snapshot is not handed to the subscriber
ActorStop(a) ==
  CASE a.proc = "Stopped" -> a
    [] a.proc = "NotStarted" -> [a EXCEPT !.proc = "Stopped"]
    [] OTHER -> Complete([a EXCEPT !.snapshot.status = "stopped"])

\* the invocation running for the actor
ChildOf(m, a) ==
  IF m = "invoked" /\ a.proc = "Running" THEN InvokeSrc(a.snapshot.value)
  ELSE "none"

\* ------------------------------------------------------------------------
\* The snapshot codec: JSON.stringify and JSON.parse.  The text is the
\* sequence of its tokens.

Tok(kind, text) == [kind |-> kind, text |-> text]
Punct(c) == Tok(c, c)

\* the members of an object literal, each one written after a comma
Separated(members) == IF members = << >> THEN << >> ELSE Tail(members)

RECURSIVE StringifyDroppingNull(_), MembersDroppingNull(_, _)
StringifyDroppingNull(v) ==
  CASE v.t = "null" -> << Punct("null") >>
    [] v.t = "boolean" -> << Punct(IF v.b THEN "true" ELSE "false") >>
    [] v.t = "string" -> << Tok("string", v.s) >>
    [] v.t = "object" ->
         << Punct("{") >> \o Separated(MembersDroppingNull(v.keys, v.props))
           \o << Punct("}") >>
MembersDroppingNull(keys, props) ==
  IF keys = << >> THEN << >>
  ELSE (IF props[Head(keys)].t \in {"undefined", "null"} THEN << >>
        ELSE << Punct(","), Tok("string", Head(keys)), Punct(":") >>
               \o StringifyDroppingNull(props[Head(keys)]))
       \o MembersDroppingNull(Tail(keys), props)

\* JSON.stringify(v): a property whose value is undefined is left out
RECURSIVE Stringify(_), Members(_, _)
Stringify(v) ==
  CASE v.t = "null" -> << Punct("null") >>
    [] v.t = "boolean" -> << Punct(IF v.b THEN "true" ELSE "false") >>
    [] v.t = "string" -> << Tok("string", v.s) >>
    [] v.t = "object" ->
         << Punct("{") >> \o Separated(Members(v.keys, v.props))
           \o << Punct("}") >>
Members(keys, props) ==
  IF keys = << >> THEN << >>
  ELSE (IF props[Head(keys)].t = "undefined" THEN << >>
        ELSE << Punct(","), Tok("string", Head(keys)), Punct(":") >>
               \o Stringify(props[Head(keys)]))
       \o Members(Tail(keys), props)

\* JSON.parse(text): the value that starts at token i, and the index after it
RECURSIVE ParseValue(_, _), ParseMembers(_, _, _, _)
ParseValue(text, i) ==
  LET tok == text[i]
  IN CASE tok.kind = "null" -> [val |-> JNull, next |-> i + 1]
       [] tok.kind = "true" -> [val |-> JBool(TRUE), next |-> i + 1]
       [] tok.kind = "false" -> [val |-> JBool(FALSE), next |-> i + 1]
       [] tok.kind = "string" -> [val |-> JStr(tok.text), next |-> i + 1]
       [] tok.kind = "{" ->
            IF text[i + 1].kind = "}"
            THEN [val |-> JObj(<< >>, << >>), next |-> i + 2]
            ELSE ParseMembers(text, i + 1, << >>, << >>)
ParseMembers(text, i, keys, props) ==
  LET k == text[i].text
      r == ParseValue(text, i + 2)
      keys2 == IF k \in DOMAIN props THEN keys ELSE Append(keys, k)
      props2 == (k :> r.val) @@ props
  IN IF text[r.next].kind = ","
     THEN ParseMembers(text, r.next + 1, keys2, props2)
     ELSE [val |-> JObj(keys2, props2), next |-> r.next + 1]

JSONparse(text) == ParseValue(text, 1).val

\* the object JSON.stringify sees for a machine snapshot (its toJSON)
SnapshotToJSON(snapshot) ==
  JObj(<< "status", "output", "error", "value", "context" >>,
       [status |-> JStr(snapshot.status),
        output |-> snapshot.output,
        error |-> snapshot.error,
        value |-> JStr(snapshot.value),
        context |->
          JObj(<< "assetId", "uploadUrl", "emailSent", "error" >>,
               snapshot.context)])

StrOf(v) == IF v.t = "string" THEN v.s ELSE "undefined"

\* serializeState(actor): the text of the one object toJSON returns
serializeState(snapshot) ==
  CHOOSE text \in {Stringify(json) : json \in {SnapshotToJSON(snapshot)}} : TRUE

\* the snapshot createActor(jobMachine, {snapshot}) restores from the
\* parsed object
RestoreSnapshot(obj) ==
  [status |-> StrOf(Get(obj, "status")),
   value |-> StrOf(Get(obj, "value")),
   context |->
     [assetId |-> Get(Get(obj, "context"), "assetId"),
      uploadUrl |-> Get(Get(obj, "context"), "uploadUrl"),
      emailSent |-> Get(Get(obj, "context"), "emailSent"),
      error |-> Get(Get(obj, "context"), "error")],
   output |-> Get(obj, "output"),
   error |-> Get(obj, "error")]

createActorIgnoringSnapshot(serializedState) == createActor

\* createActorFromSerializedState(serializedState)
createActorFromSerializedState(serializedState) ==
  Actor("NotStarted", RestoreSnapshot(JSONparse(serializedState)), TRUE)

\* ------------------------------------------------------------------------
\* The job programs.

VARIABLES
  machine,      \* which program runs: "events" (xstate-simulate-job.ts) or
                \* "invoked" (simluate-jobs-effect-xstate.ts)
  actor,        \* the program's `actor`
  child,        \* the invocation in flight ("none" when there is none)
  promise,      \* the invoked promise that has not settled yet ("none"
                \* when there is none); it outlives a stopped invocation
  remoteState,  \* the simulated remote storage (<< >> for null)
  reference,    \* an actor given the same events that is never restarted
  lastOp,       \* the operation that produced the current state
  prev,         \* the actor's snapshot before that operation
  script,       \* the operations of the event-driven program, in order
  pc,           \* how many of them have run
  log,          \* what sendEventAndLog has printed
  impl,         \* which example store runs: "producer" (store.ts),
                \* "fromStore" or "assign" (store-as-xstate.ts)
  heap,         \* the todos arrays that exist, by reference
  context,      \* the example store's current context object
  held,         \* a context object read from an earlier snapshot
  heldValue,    \* the count and todos that object had when it was read
  sim,          \* where the invoked program (runSimulation) stands
  retryCount,   \* its retryCount
  subs,         \* the actor's observers, in subscription order
  subscriptions,\* every subscription made: who, and from which to which
                \* published snapshot it was attached
  published,    \* the snapshots the actor has published, in order
  calls,        \* the subscriber calls made, in order
  events,       \* the events the actor has processed, in order
  resolved,     \* what waitForCompletion resolved with
  invocations,  \* every invocation started, with its fate
  fetchActor,   \* the fetch program's `fetchActor`
  fetches,      \* every fetchUser invocation started, with its fate
  timers,       \* every delayed transition armed, with its fate
  seen,         \* the values the fetch program's subscriber has logged
  sends,        \* how many events have been sent to fetchActor
  fetchOp,      \* the operation that produced fetchActor's state
  trainImpl,    \* which train runs: "machine" (blog-xstate.ts) or
                \* "store" (blog-xstate-store.ts)
  trainProc,    \* whether the train has been started
  train,        \* the train's context
  trainOp,      \* the last event sent to the train
  trainPrev,    \* the train's context before that event
  fleet,        \* the context of each synchronous train implementation,
                \* all given the events sent to `train`
  asyncLog,     \* the events sent to the asynchronous train, in order
  effects,      \* the Effect values its depart action has built
  waited        \* whether 2500 ms have passed since the last send

jobVars ==
  << machine, actor, child, promise, remoteState, reference, lastOp, prev >>
scriptVars == << script, pc, log >>
storeVars == << impl, heap, context, held, heldValue >>
simVars ==
  << sim, retryCount, subs, subscriptions, published, calls, events,
     resolved, invocations >>
fetchVars == << fetchActor, fetches, timers, seen, sends, fetchOp >>
asyncVars == << asyncLog, effects, waited >>
trainVars == << trainImpl, trainProc, train, trainOp, trainPrev, fleet, asyncVars >>
extraVars == << simVars, fetchVars, trainVars >>
vars == << jobVars, scriptVars, storeVars, extraVars >>

NoState == << >>

PublishActiveOnly(observers, next, remote) ==
  IF observers /\ next # << >> /\ next[Len(next)].status = "active"
  THEN serializeState(next[Len(next)])
  ELSE remote

\* the subscriber: updateRemoteState(serializeState(actor)) on every
\* snapshot handed to it
Publish(observers, next, remote) ==
  IF observers /\ next # << >> THEN serializeState(next[Len(next)])
  ELSE remote

\* the invocation after a step from actor a to actor b
ChildAfter(a, b, c) ==
  IF b.proc # "Running" THEN "none"
  ELSE IF b.snapshot.value # a.snapshot.value THEN ChildOf(machine, b)
  ELSE c

InitJob ==
  /\ actor = Subscribe(createActor)
  /\ child = "none"
  /\ promise = "none"
  /\ remoteState = NoState
  /\ reference = actor
  /\ lastOp = [op |-> "create"]
  /\ prev = initialSnapshot

NoScript == script = << >> /\ pc = 0 /\ log = << >>

NoStore ==
  /\ impl = "none"
  /\ heap = << >>
  /\ context = [count |-> 0, todos |-> 0]
  /\ held = context
  /\ heldValue = [count |-> 0, todos |-> << >>]

NoSim ==
  /\ sim = "off"
  /\ retryCount = 0
  /\ subs = << >>
  /\ subscriptions = << >>
  /\ published = << >>
  /\ calls = << >>
  /\ events = << >>
  /\ resolved = << >>
  /\ invocations = << >>

\* the fetch program does not run
NoFetch ==
  /\ fetchActor = [proc |-> "Off"]
  /\ fetches = << >>
  /\ timers = << >>
  /\ seen = << >>
  /\ sends = 0
  /\ fetchOp = [op |-> "none"]

\* no train runs
NoTrain ==
  /\ trainImpl = "none"
  /\ trainProc = "Off"
  /\ train = [passengers |-> 0, fuel |-> 0, atStation |-> "none"]
  /\ trainOp = [type |-> "none"]
  /\ trainPrev = train
  /\ fleet = << >>
  /\ asyncLog = << >>
  /\ effects = << >>
  /\ waited = FALSE

NoExtra == NoSim /\ NoFetch /\ NoTrain

Init ==
  /\ machine \in {"events", "invoked"}
  /\ InitJob
  /\ NoScript
  /\ NoStore
  /\ NoExtra

\* actor.start()
DoStart ==
  /\ LET out == ActorStart(actor)
     IN /\ actor' = out.actor
        /\ remoteState' = Publish(actor.observers, out.next, remoteState)
        /\ child' = ChildAfter(actor, out.actor, child)
        /\ promise' = child'
  /\ reference' = ActorStart(reference).actor
  /\ lastOp' = [op |-> "start"]
  /\ prev' = actor.snapshot
  /\ UNCHANGED machine

\* the actor processes `event`, whoever sent it
Deliver(event) ==
  /\ LET out == ActorSend(machine, actor, event)
     IN /\ actor' = out.actor
        /\ remoteState' = Publish(actor.observers, out.next, remoteState)
        /\ child' = ChildAfter(actor, out.actor, child)
        /\ promise' = child'
  /\ reference' = ActorSend(machine, reference, event).actor
  /\ lastOp' = [op |-> "send", event |-> event]
  /\ prev' = actor.snapshot
  /\ UNCHANGED machine

\* simulateStopAndRestart(): the old actor is stopped and dropped (its
\* subscriber is not called for the stop); the new one is built from the
\* saved state, subscribed and started
DoStopAndRestart ==
  /\ LET savedState == remoteState
         fresh == IF savedState # NoState
                  THEN Subscribe(createActorFromSerializedState(savedState))
                  ELSE createActor
         out == ActorStart(fresh)
     IN /\ actor' = out.actor
        /\ remoteState' = Publish(fresh.observers, out.next, remoteState)
        /\ child' = ChildAfter(actor, out.actor, "none")
        /\ promise' = child'
  /\ lastOp' = [op |-> "restart"]
  /\ prev' = actor.snapshot
  /\ UNCHANGED << machine, reference >>

Start ==
  /\ actor.proc = "NotStarted"
  /\ DoStart
  /\ UNCHANGED << scriptVars, storeVars, extraVars >>

\* sendEventAndLog(event) / actor.send(event)
Send ==
  /\ actor.proc # "NotStarted"
  /\ \E event \in IF machine = "invoked" THEN InvokedJobEvents ELSE JobEvents :
       Deliver(event)
  /\ UNCHANGED << scriptVars, storeVars, extraVars >>

\* the invoked promise resolves
InvokeDone ==
  /\ child # "none"
  /\ \E a \in AssetIds, u \in Urls :
       Deliver([type |-> DoneType(child),
                output |->
                  CASE child = "createAsset" -> [assetId |-> a]
                    [] child = "uploadAsset" -> [uploadUrl |-> u]
                    [] child = "emailClient" -> [emailSent |-> JBool(TRUE)]])
  /\ UNCHANGED << scriptVars, storeVars, extraVars >>

\* the invoked promise rejects
InvokeError ==
  /\ child # "none"
  /\ \E m \in Messages :
       Deliver([type |-> ErrorType(child), error |-> [message |-> m]])
  /\ UNCHANGED << scriptVars, storeVars, extraVars >>

simulateStopAndRestart ==
  /\ machine = "events"
  /\ actor.proc # "NotStarted"
  /\ DoStopAndRestart
  /\ UNCHANGED << scriptVars, storeVars, extraVars >>

\* actor.stop() of the invoked program
StopActor ==
  /\ machine = "invoked"
  /\ actor.proc = "Running"
  /\ actor' = ActorStop(actor)
  /\ child' = "none"
  /\ promise' = child
  /\ lastOp' = [op |-> "stop"]
  /\ prev' = actor.snapshot
  /\ UNCHANGED << machine, remoteState, reference >>
  /\ UNCHANGED << scriptVars, storeVars, extraVars >>

\* the promise of an invocation that was stopped settles: the stopped
\* invocation does not pass the result on
SettleAfterStop ==
  /\ promise # "none"
  /\ child = "none"
  /\ promise' = "none"
  /\ lastOp' = [op |-> "settle", src |-> promise]
  /\ prev' = actor.snapshot
  /\ UNCHANGED << machine, actor, child, remoteState, reference >>
  /\ UNCHANGED << scriptVars, storeVars, extraVars >>

Next ==
  \/ Start
  \/ Send
  \/ InvokeDone
  \/ InvokeError
  \/ simulateStopAndRestart
  \/ StopActor
  \/ SettleAfterStop

Spec == Init /\ [][Next]_vars

\* ------------------------------------------------------------------------
\* The event-driven program resumed from an arbitrary saved snapshot.
AnySnapshot ==
  {Snapshot(StatusAfter(v), v, c) : v \in StateIds, c \in JobContext}

InitRestored ==
  /\ machine = "events"
  /\ \E s \in AnySnapshot :
       /\ remoteState = serializeState(s)
       /\ actor = Subscribe(createActorFromSerializedState(remoteState))
       /\ prev = s
  /\ child = "none"
  /\ promise = "none"
  /\ reference = actor
  /\ lastOp = [op |-> "create"]
  /\ NoScript
  /\ NoStore
  /\ NoExtra

NextRestored ==
  \/ Start
  \/ Send
  \/ simulateStopAndRestart

SpecRestored == InitRestored /\ [][NextRestored]_vars

\* ------------------------------------------------------------------------
\* The event-driven program as written: start, three scenarios of four
\* events, a stop and restart after each.  The payload strings are drawn
\* from the bounded sets.
Op(name) == [op |-> name]
SendOp(event) == [op |-> "send", event |-> event]

Scenario1(m, a) ==
  << SendOp([type |-> "CREATE_ASSET"]),
     SendOp([type |-> "ERROR", message |-> m]),
     SendOp([type |-> "RETRY"]),
     SendOp([type |-> "ASSET_CREATED", assetId |-> a]) >>

Scenario2(m, u) ==
  << SendOp([type |-> "UPLOAD_ASSET"]),
     SendOp([type |-> "ERROR", message |-> m]),
     SendOp([type |-> "RETRY"]),
     SendOp([type |-> "ASSET_UPLOADED", uploadUrl |-> u]) >>

Scenario3(m) ==
  << SendOp([type |-> "EMAIL_CLIENT"]),
     SendOp([type |-> "ERROR", message |-> m]),
     SendOp([type |-> "RETRY"]),
     SendOp([type |-> "EMAIL_SENT"]) >>

Program(m1, a, m2, u, m3) ==
  << Op("start") >> \o Scenario1(m1, a) \o << Op("restart") >>
    \o Scenario2(m2, u) \o << Op("restart") >>
    \o Scenario3(m3) \o << Op("restart") >>

InitScript ==
  /\ machine = "events"
  /\ InitJob
  /\ \E m1 \in Messages, a \in AssetIds, m2 \in Messages, u \in Urls,
        m3 \in Messages :
       script = Program(m1, a, m2, u, m3)
  /\ pc = 0
  /\ log = << >>
  /\ NoStore
  /\ NoExtra

\* the next statement of the program
RunScript ==
  /\ pc < Len(script)
  /\ LET step == script[pc + 1]
     IN CASE step.op = "start" -> DoStart /\ log' = log
          [] step.op = "restart" -> DoStopAndRestart /\ log' = log
          [] step.op = "send" ->
               /\ Deliver(step.event)
               /\ log' = Append(log, [event |-> step.event,
                                      value |-> actor'.snapshot.value,
                                      context |-> actor'.snapshot.context])
  /\ pc' = pc + 1
  /\ UNCHANGED << script, storeVars, extraVars >>

NextScript == RunScript

SpecScript == InitScript /\ [][NextScript]_vars

\* ------------------------------------------------------------------------
\* The example stores: store.ts (createStoreWithProducer with Immer's
\* produce), the fromStore variant (spread and concat) and
\* store-as-xstate.ts (assign).  A context object holds a count and a
\* reference to its todos array; arrays live in the heap.
MaxCount == 3
MaxTodos == 2
MaxBy == 2
MaxTodoNames == 2

Todos == {"todo" \o ToString(i) : i \in 1..MaxTodoNames}

\* { count: 0, todos: [] }
InitStore ==
  /\ impl \in {"producer", "fromStore", "assign"}
  /\ heap = << << >> >>
  /\ context = [count |-> 0, todos |-> 1]
  /\ held = context
  /\ heldValue = [count |-> 0, todos |-> << >>]
  /\ machine = "none"
  /\ InitJob
  /\ NoScript
  /\ NoExtra

\* getSnapshot().context
getSnapshot ==
  /\ held' = context
  /\ heldValue' = [count |-> context.count, todos |-> heap[context.todos]]
  /\ UNCHANGED << impl, heap, context, jobVars, scriptVars, extraVars >>

\* send({ type: "inc", by }): every variant builds a new context object
\* that shares the todos array
inc ==
  /\ \E by \in 1..MaxBy :
       /\ context.count + by <= MaxCount
       /\ context' = [context EXCEPT !.count = context.count + by]
  /\ UNCHANGED << impl, heap, held, heldValue, jobVars, scriptVars, extraVars >>

\* send({ type: "addTodo", todo })
addTodo ==
  /\ Len(heap[context.todos]) < MaxTodos
  /\ \E todo \in Todos :
       IF impl = "assign"
       THEN \* context.todos.push(event.todo); return context.todos
            /\ heap' = [heap EXCEPT ![context.todos] = Append(@, todo)]
            /\ context' = context
       ELSE \* Immer's produce / context.todos.concat(event.todo): a new array
            /\ heap' = Append(heap, Append(heap[context.todos], todo))
            /\ context' = [context EXCEPT !.todos = Len(heap) + 1]
  /\ UNCHANGED << impl, held, heldValue, jobVars, scriptVars, extraVars >>

NextStore ==
  \/ getSnapshot
  \/ inc
  \/ addTodo

SpecStore == InitStore /\ [][NextStore]_vars

\* ------------------------------------------------------------------------
\* The invoked program as written (simluate-jobs-effect-xstate.ts): the
\* actor with its remote-state subscriber, the first CREATE_ASSET, then
\* runSimulation with waitForCompletion and at most maxRetries retries.
\* The synchronous statements run before any promise settles.

maxRetries == 3

\* the subscriber that saves the remote state
RemoteSub == 0

Working == {"creatingAsset", "uploadingAsset", "emailingClient"}

RECURSIVE Without(_, _)
Without(seq, x) ==
  IF seq = << >> THEN << >>
  ELSE IF Head(seq) = x THEN Without(Tail(seq), x)
  ELSE << Head(seq) >> \o Without(Tail(seq), x)

\* the subscriptions of the observers in `gone` end at the last published
\* snapshot
Close(subscriptions_, gone, at) ==
  [i \in DOMAIN subscriptions_ |->
     IF subscriptions_[i].to = -1 /\ subscriptions_[i].sub \in gone
     THEN [subscriptions_[i] EXCEPT !.to = at]
     ELSE subscriptions_[i]]

\* what the subscribers read and write
Observed ==
  [remote |-> remoteState, subs |-> subs, subscriptions |-> subscriptions,
   published |-> published, calls |-> calls, resolved |-> resolved]

\* one subscriber is called with `snapshot`: the first one saves the
\* remote state; a waitForCompletion subscriber unsubscribes and resolves
\* once the snapshot matches complete or error
Callback(id, snapshot, st) ==
  LET called ==
        [st EXCEPT !.calls = Append(@, [sub |-> id, snapshot |-> snapshot])]
  IN IF id = RemoteSub
     THEN [called EXCEPT !.remote = serializeState(snapshot)]
     ELSE IF snapshot.value \in {"complete", "error"}
     THEN [called EXCEPT
             !.subs = Without(@, id),
             !.subscriptions = Close(@, {id}, Len(st.published)),
             !.resolved = << [state |-> snapshot, remote |-> st.remote] >>]
     ELSE called

RECURSIVE NotifyLastFirst(_, _, _)
NotifyLastFirst(order, snapshot, st) ==
  IF order = << >> THEN st
  ELSE Callback(Head(order), snapshot,
                NotifyLastFirst(Tail(order), snapshot, st))

\* the observers are called in subscription order
RECURSIVE NotifyAll(_, _, _)
NotifyAll(order, snapshot, st) ==
  IF order = << >> THEN st
  ELSE NotifyAll(Tail(order), snapshot, Callback(Head(order), snapshot, st))

\* the snapshots handed out by update() reach the observers
PublishAll(next, st) ==
  IF next = << >> THEN st
  ELSE NotifyAll(st.subs, next[1],
                 [st EXCEPT !.published = Append(@, next[1])])

\* an actor that has ended has released its observers
Release(a, st) ==
  IF a.proc = "Stopped"
  THEN [st EXCEPT
          !.subs = << >>,
          !.subscriptions =
            Close(@, {st.subs[i] : i \in DOMAIN st.subs}, Len(st.published))]
  ELSE st

SubscribeObserverEager(id, a, st) ==
  IF a.proc = "Stopped" THEN st
  ELSE Callback(id, a.snapshot,
         [st EXCEPT
            !.subs = Append(@, id),
            !.subscriptions =
              Append(@, [sub |-> id, at |-> a.snapshot,
                          from |-> Len(st.published), to |-> -1])])

\* actor.subscribe(callback): the observer is added; it is not called
SubscribeObserver(id, a, st) ==
  IF a.proc = "Stopped" THEN st
  ELSE [st EXCEPT
          !.subs = Append(@, id),
          !.subscriptions =
            Append(@, [sub |-> id, at |-> a.snapshot,
                          from |-> Len(st.published), to |-> -1])]

Fate(invs, from, to) ==
  [i \in DOMAIN invs |->
     IF invs[i].fate = from THEN [invs[i] EXCEPT !.fate = to] ELSE invs[i]]

InvocationsRestartedByEvents(a, b, event, invs) ==
  LET settled ==
        IF a.proc = "Running" /\ event.type = DoneType(InvokeSrc(a.snapshot.value))
        THEN Fate(invs, "pending", "done")
        ELSE IF a.proc = "Running"
                /\ event.type = ErrorType(InvokeSrc(a.snapshot.value))
        THEN Fate(invs, "pending", "error")
        ELSE invs
      exited == Fate(settled, "pending", "stopped")
  IN IF b.proc = "Running" /\ InvokeSrc(b.snapshot.value) # "none"
     THEN Append(exited,
                 [src |-> InvokeSrc(b.snapshot.value), fate |-> "pending"])
     ELSE exited

\* the invocations after the actor went from a to b on `event`: the one of
\* the state left is settled by its own done or error event or else
\* stopped, and the state entered starts its own
InvocationsAfter(a, b, event, invs) ==
  LET settled ==
        IF a.proc = "Running" /\ event.type = DoneType(InvokeSrc(a.snapshot.value))
        THEN Fate(invs, "pending", "done")
        ELSE IF a.proc = "Running"
                /\ event.type = ErrorType(InvokeSrc(a.snapshot.value))
        THEN Fate(invs, "pending", "error")
        ELSE invs
      left == b.proc # "Running" \/ b.snapshot.value # a.snapshot.value
      exited == IF left THEN Fate(settled, "pending", "stopped") ELSE settled
  IN IF left /\ b.proc = "Running" /\ InvokeSrc(b.snapshot.value) # "none"
     THEN Append(exited,
                 [src |-> InvokeSrc(b.snapshot.value), fate |-> "pending"])
     ELSE exited

scriptAndStore == << scriptVars, storeVars, fetchVars, trainVars >>

InitSim ==
  /\ machine = "invoked"
  /\ actor = createActor
  /\ child = "none"
  /\ promise = "none"
  /\ remoteState = NoState
  /\ reference = actor
  /\ lastOp = [op |-> "create"]
  /\ prev = initialSnapshot
  /\ NoScript
  /\ NoStore
  /\ NoFetch
  /\ NoTrain
  /\ sim = "created"
  /\ retryCount = 0
  /\ subs = << >>
  /\ subscriptions = << >>
  /\ published = << >>
  /\ calls = << >>
  /\ events = << >>
  /\ resolved = << >>
  /\ invocations = << >>

\* the observers' side of a step
Observe(st) ==
  \E after \in {st} :
    /\ remoteState' = after.remote
    /\ subs' = after.subs
    /\ subscriptions' = after.subscriptions
    /\ published' = after.published
    /\ calls' = after.calls
    /\ resolved' = after.resolved

\* actor.send(event) in the invoked program, `st` being what the observers
\* see before it
SimDeliver(event, st) ==
  /\ \E out \in {ActorSend(machine, actor, event)} :
        /\ actor' = out.actor
        /\ child' = ChildAfter(actor, out.actor, child)
        /\ promise' = child'
        /\ invocations' = InvocationsAfter(actor, out.actor, event, invocations)
        /\ Observe(Release(out.actor, PublishAll(out.next, st)))
  /\ events' = IF actor.proc = "Running" THEN Append(events, event) ELSE events
  /\ reference' = ActorSend(machine, reference, event).actor
  /\ lastOp' = [op |-> "send", event |-> event]
  /\ prev' = actor.snapshot
  /\ UNCHANGED machine

\* actor.subscribe((state) => ... updateRemoteState(JSON.stringify(state)))
SimSubscribe ==
  /\ sim = "created"
  /\ actor' = Subscribe(actor)
  /\ Observe(SubscribeObserver(RemoteSub, actor, Observed))
  /\ sim' = "subscribed"
  /\ lastOp' = [op |-> "subscribe", sub |-> RemoteSub]
  /\ prev' = actor.snapshot
  /\ reference' = actor'
  /\ UNCHANGED << machine, child, promise, retryCount, events, invocations >>
  /\ UNCHANGED scriptAndStore

\* actor.start()
SimStart ==
  /\ sim = "subscribed"
  /\ \E out \in {ActorStart(actor)} :
        /\ actor' = out.actor
        /\ child' = ChildAfter(actor, out.actor, child)
        /\ promise' = child'
        /\ Observe(Release(out.actor, PublishAll(out.next, Observed)))
  /\ reference' = ActorStart(reference).actor
  /\ sim' = "started"
  /\ lastOp' = [op |-> "start"]
  /\ prev' = actor.snapshot
  /\ UNCHANGED << machine, retryCount, events, invocations >>
  /\ UNCHANGED scriptAndStore

\* actor.send({ type: "CREATE_ASSET" }) that starts the job flow
SimFirstSend ==
  /\ sim = "started"
  /\ SimDeliver([type |-> "CREATE_ASSET"], Observed)
  /\ sim' = "flow"
  /\ UNCHANGED retryCount
  /\ UNCHANGED scriptAndStore

\* runSimulation(): actor.send({ type: "CREATE_ASSET" })
SimRunSimulation ==
  /\ sim = "flow"
  /\ SimDeliver([type |-> "CREATE_ASSET"], Observed)
  /\ sim' = "attempt"
  /\ UNCHANGED retryCount
  /\ UNCHANGED scriptAndStore

\* waitForCompletion(): actor.subscribe(...)
SimWait ==
  /\ sim = "attempt"
  /\ Observe(SubscribeObserver(retryCount + 1, actor, Observed))
  /\ sim' = "waiting"
  /\ lastOp' = [op |-> "subscribe", sub |-> retryCount + 1]
  /\ prev' = actor.snapshot
  /\ UNCHANGED << machine, actor, child, promise, reference, retryCount,
                  events, invocations >>
  /\ UNCHANGED scriptAndStore

Waited == IF resolved' # << >> THEN "resolved" ELSE "waiting"

\* the invoked promise resolves while the program waits
SimInvokeDone ==
  /\ sim = "waiting"
  /\ child # "none"
  /\ \E a \in AssetIds, u \in Urls :
       SimDeliver([type |-> DoneType(child),
                   output |->
                     CASE child = "createAsset" -> [assetId |-> a]
                       [] child = "uploadAsset" -> [uploadUrl |-> u]
                       [] child = "emailClient" ->
                            [emailSent |-> JBool(TRUE)]],
                  Observed)
  /\ sim' = Waited
  /\ UNCHANGED retryCount
  /\ UNCHANGED scriptAndStore

\* the invoked promise rejects while the program waits
SimInvokeError ==
  /\ sim = "waiting"
  /\ child # "none"
  /\ \E m \in Messages :
       SimDeliver([type |-> ErrorType(child), error |-> [message |-> m]],
                  Observed)
  /\ sim' = Waited
  /\ UNCHANGED retryCount
  /\ UNCHANGED scriptAndStore

SimRetryUnbounded ==
  /\ sim = "resolved"
  /\ resolved[1].state.value = "error"
  /\ retryCount' = retryCount + 1
  /\ SimDeliver([type |-> "RETRY"], [Observed EXCEPT !.resolved = << >>])
  /\ sim' = "flow"
  /\ UNCHANGED scriptAndStore

\* waitForCompletion().then((finalState) => ...), retrying
SimRetry ==
  /\ sim = "resolved"
  /\ resolved[1].state.value = "error"
  /\ retryCount < maxRetries
  /\ retryCount' = retryCount + 1
  /\ SimDeliver([type |-> "RETRY"], [Observed EXCEPT !.resolved = << >>])
  /\ sim' = "flow"
  /\ UNCHANGED scriptAndStore

\* waitForCompletion().then((finalState) => ...), not retrying
SimGiveUp ==
  /\ sim = "resolved"
  /\ ~(resolved[1].state.value = "error" /\ retryCount < maxRetries)
  /\ sim' = "finished"
  /\ UNCHANGED << jobVars, retryCount, subs, subscriptions, published, calls,
                  events, resolved, invocations >>
  /\ UNCHANGED scriptAndStore

\* runSimulation().then(() => actor.stop())
SimStop ==
  /\ sim = "finished"
  /\ actor' = ActorStop(actor)
  /\ child' = "none"
  /\ promise' = child
  /\ invocations' = Fate(invocations, "pending", "stopped")
  /\ Observe(Release(actor', Observed))
  /\ sim' = "stopped"
  /\ lastOp' = [op |-> "stop"]
  /\ prev' = actor.snapshot
  /\ UNCHANGED << machine, reference, retryCount, events >>
  /\ UNCHANGED scriptAndStore

NextSim ==
  \/ SimSubscribe
  \/ SimStart
  \/ SimFirstSend
  \/ SimRunSimulation
  \/ SimWait
  \/ SimInvokeDone
  \/ SimInvokeError
  \/ SimRetry
  \/ SimGiveUp
  \/ SimStop

SpecSim == InitSim /\ [][NextSim]_vars

\* every statement of the program runs and every promise settles
SpecSimFair == SpecSim /\ WF_vars(NextSim)

\* ------------------------------------------------------------------------
\* The fetch machine (blog-xstate-store-effect-ts-async-improved.ts).

MaxFailures == 3
MaxFetchSends == 3

\* getGreeting(name), when it does not fail
Greeting(name) == [greeting |-> "Hello, " \o name \o "!"]

\* the event of the delayed transition of `failure`
AfterType == "xstate.after.1000.failure"

fetchMachineRefetch(value, type) ==
  CASE value \in {"idle", "success"} /\ type = "FETCH" -> "loading"
    [] value = "loading" /\ type = DoneType("fetchUser") -> "success"
    [] value = "loading" /\ type = ErrorType("fetchUser") -> "failure"
    [] value = "failure" /\ type = AfterType -> "loading"
    [] value = "failure" /\ type = "RETRY" -> "loading"
    [] OTHER -> "none"

\* the target of fetchMachine in state `value` on an event of type `type`
fetchMachine(value, type) ==
  CASE value = "idle" /\ type = "FETCH" -> "loading"
    [] value = "loading" /\ type = DoneType("fetchUser") -> "success"
    [] value = "loading" /\ type = ErrorType("fetchUser") -> "failure"
    [] value = "failure" /\ type = AfterType -> "loading"
    [] value = "failure" /\ type = "RETRY" -> "loading"
    [] OTHER -> "none"

fetchSnapshot == [value |-> "idle", context |-> [name |-> "World", data |-> JNull]]

\* the snapshot after fetchMachine has processed `event`
FetchTransition(snapshot, event) ==
  IF fetchMachine(snapshot.value, event.type) = "none" THEN snapshot
  ELSE [value |-> fetchMachine(snapshot.value, event.type),
        context |->
          IF event.type = DoneType("fetchUser")
          THEN [snapshot.context EXCEPT !.data = event.output]
          ELSE snapshot.context]

TimersKeptOnExit(a, b, event, ts) ==
  LET fired ==
        IF event.type = AfterType
        THEN [ts EXCEPT ![event.id].fate = "fired"]
        ELSE ts
  IN IF b = "failure" /\ a # b
     THEN Append(fired, [src |-> "failure", fate |-> "armed"])
     ELSE fired

\* the delayed transitions after the machine went from value a to value b
\* on `event`: the timer that fired has fired, leaving `failure` cancels
\* the one still armed, and entering `failure` arms a new one
TimersAfter(a, b, event, ts) ==
  LET fired ==
        IF event.type = AfterType
        THEN [ts EXCEPT ![event.id].fate = "fired"]
        ELSE ts
      exited == IF a = "failure" /\ b # a
                THEN Fate(fired, "armed", "cancelled") ELSE fired
  IN IF b = "failure" /\ a # b
     THEN Append(exited, [src |-> "failure", fate |-> "armed"])
     ELSE exited

\* the fetchUser invocations after the machine went from a to b on `event`
FetchesAfter(a, b, event, fs) ==
  LET settled ==
        IF a = "loading" /\ event.type = DoneType("fetchUser")
        THEN Fate(fs, "pending", "done")
        ELSE IF a = "loading" /\ event.type = ErrorType("fetchUser")
        THEN Fate(fs, "pending", "error")
        ELSE fs
      exited == IF a = "loading" /\ b # a
                THEN Fate(settled, "pending", "stopped") ELSE settled
  IN IF b = "loading" /\ a # b
     THEN Append(exited, [src |-> "fetchUser", fate |-> "pending"])
     ELSE exited

notFetch == << jobVars, scriptVars, storeVars, simVars, trainVars >>

InitFetch ==
  /\ machine = "none"
  /\ InitJob
  /\ NoScript
  /\ NoStore
  /\ NoSim
  /\ NoTrain
  /\ fetchActor = [proc |-> "NotStarted", observers |-> FALSE,
                   snapshot |-> fetchSnapshot]
  /\ fetches = << >>
  /\ timers = << >>
  /\ seen = << >>
  /\ sends = 0
  /\ fetchOp = [op |-> "create"]

\* the running fetchActor processes `event` and publishes the snapshot
FetchDeliver(event, op) ==
  /\ fetchActor.proc = "Running"
  /\ \E next \in {FetchTransition(fetchActor.snapshot, event)} :
       /\ fetchActor' = [fetchActor EXCEPT !.snapshot = next]
       /\ timers' = TimersAfter(fetchActor.snapshot.value, next.value,
                                event, timers)
       /\ fetches' = FetchesAfter(fetchActor.snapshot.value, next.value,
                                  event, fetches)
       /\ seen' = IF fetchActor.observers
                  THEN Append(seen, next.value) ELSE seen
  /\ fetchOp' = [op |-> op, from |-> fetchActor.snapshot.value]
  /\ UNCHANGED notFetch

\* fetchActor.subscribe((state) => console.log(...))
FetchSubscribe ==
  /\ fetchActor.proc = "NotStarted"
  /\ ~fetchActor.observers
  /\ fetchActor' = [fetchActor EXCEPT !.observers = TRUE]
  /\ fetchOp' = [op |-> "subscribe", from |-> fetchActor.snapshot.value]
  /\ UNCHANGED << fetches, timers, seen, sends >>
  /\ UNCHANGED notFetch

\* fetchActor.start()
FetchStart ==
  /\ fetchActor.proc = "NotStarted"
  /\ fetchActor.observers
  /\ fetchActor' = [fetchActor EXCEPT !.proc = "Running"]
  /\ seen' = Append(seen, fetchActor.snapshot.value)
  /\ fetchOp' = [op |-> "start", from |-> fetchActor.snapshot.value]
  /\ UNCHANGED << fetches, timers, sends >>
  /\ UNCHANGED notFetch

\* fetchActor.send({ type: "FETCH" }), or a RETRY sent to the machine
FetchSend ==
  /\ sends < MaxFetchSends
  /\ sends' = sends + 1
  /\ \E type \in {"FETCH", "RETRY"} : FetchDeliver([type |-> type], "send")

FetchPending == fetches # << >> /\ fetches[Len(fetches)].fate = "pending"

\* getGreeting resolves
FetchResolve ==
  /\ FetchPending
  /\ FetchDeliver([type |-> DoneType("fetchUser"),
                   output |-> Greeting(fetchActor.snapshot.context.name)],
                  "done")
  /\ UNCHANGED sends

\* getGreeting fails
FetchReject ==
  /\ FetchPending
  /\ Len(timers) < MaxFailures
  /\ FetchDeliver([type |-> ErrorType("fetchUser"),
                   error |-> [message |-> "Random failure occurred"]],
                  "error")
  /\ UNCHANGED sends

\* an armed delayed transition fires after its 1000 ms
FetchAfter ==
  /\ \E id \in DOMAIN timers :
       /\ timers[id].fate = "armed"
       /\ FetchDeliver([type |-> AfterType, id |-> id], "after")
  /\ UNCHANGED sends

NextFetch ==
  \/ FetchSubscribe
  \/ FetchStart
  \/ FetchSend
  \/ FetchResolve
  \/ FetchReject
  \/ FetchAfter

SpecFetch == InitFetch /\ [][NextFetch]_vars

\* ------------------------------------------------------------------------
\* The train (blog-xstate.ts, blog-xstate-store.ts).

MaxPassengers == 100

Counts == {30, 50}
Stations == {"North Station", "South Station"}
Amounts == {0, 5, 20}

TrainEvents ==
  {[type |-> "BOARD", count |-> c] : c \in Counts}
    \cup {[type |-> "DEPART", destination |-> d] : d \in Stations}
    \cup {[type |-> "REFUEL", amount |-> a] : a \in Amounts}

trainContext == [passengers |-> 0, fuel |-> 100, atStation |-> "Central"]

MinAsMax(a, b) == IF a <= b THEN b ELSE a

\* Math.min
Min(a, b) == IF a <= b THEN a ELSE b

trainMachineDepartAboveTen(context_, event) ==
  CASE event.type = "BOARD" ->
         [context_ EXCEPT !.passengers = @ + event.count]
    [] event.type = "DEPART" ->
         IF context_.fuel > 10
         THEN [context_ EXCEPT !.fuel = @ - 10,
                               !.atStation = event.destination]
         ELSE context_
    [] event.type = "REFUEL" ->
         [context_ EXCEPT !.fuel = Min(@ + event.amount, 100)]

\* trainMachine: the context after `event`; DEPART is guarded
trainMachine(context_, event) ==
  CASE event.type = "BOARD" ->
         [context_ EXCEPT !.passengers = @ + event.count]
    [] event.type = "DEPART" ->
         IF context_.fuel >= 10
         THEN [context_ EXCEPT !.fuel = @ - 10,
                               !.atStation = event.destination]
         ELSE context_
    [] event.type = "REFUEL" ->
         [context_ EXCEPT !.fuel = Min(@ + event.amount, 100)]

\* trainStore: the context the producer returns for `event`
trainStore(context_, event) ==
  CASE event.type = "BOARD" ->
         [context_ EXCEPT !.passengers = context_.passengers + event.count]
    [] event.type = "DEPART" ->
         IF context_.fuel >= 10
         THEN [[context_ EXCEPT !.fuel = context_.fuel - 10]
                 EXCEPT !.atStation = event.destination]
         ELSE context_
    [] event.type = "REFUEL" ->
         [context_ EXCEPT !.fuel = Min(context_.fuel + event.amount, 100)]

\* trainStore of fromStore: each transition returns produce(context, ...)
trainFromStore(context_, event) ==
  CASE event.type = "BOARD" ->
         [context_ EXCEPT !.passengers = context_.passengers + event.count]
    [] event.type = "DEPART" ->
         IF context_.fuel >= 10
         THEN [[context_ EXCEPT !.fuel = context_.fuel - 10]
                 EXCEPT !.atStation = event.destination]
         ELSE context_
    [] event.type = "REFUEL" ->
         [context_ EXCEPT !.fuel = Min(context_.fuel + event.amount, 100)]

\* boardPassengers: { ...context, passengers: context.passengers + count }
boardPassengers(context_, event) ==
  [passengers |-> context_.passengers + event.count,
   fuel |-> context_.fuel,
   atStation |-> context_.atStation]

departTrainUnguarded(context_, event) ==
  [passengers |-> context_.passengers,
   fuel |-> context_.fuel - 10,
   atStation |-> event.destination]

\* departTrain: the departed context, or the context itself without fuel
departTrain(context_, event) ==
  IF context_.fuel >= 10
  THEN [passengers |-> context_.passengers,
        fuel |-> context_.fuel - 10,
        atStation |-> event.destination]
  ELSE context_

\* refuelTrain
refuelTrain(context_, event) ==
  [passengers |-> context_.passengers,
   fuel |-> Min(context_.fuel + event.amount, 100),
   atStation |-> context_.atStation]

\* the Effect machine: assign(pipe(assignment, assertEventEffect(type),
\* action, Effect.runSync)) of the action the event's type names
trainEffect(context_, event) ==
  CASE event.type = "BOARD" -> boardPassengers(context_, event)
    [] event.type = "DEPART" -> departTrain(context_, event)
    [] event.type = "REFUEL" -> refuelTrain(context_, event)

TrainImpls == {"machine", "store", "fromStore", "effect"}

\* the train `i` after `event`
TrainAfter(i, context_, event) ==
  CASE i = "machine" -> trainMachine(context_, event)
    [] i = "store" -> trainStore(context_, event)
    [] i = "fromStore" -> trainFromStore(context_, event)
    [] i = "effect" -> trainEffect(context_, event)

notTrain == << jobVars, scriptVars, storeVars, simVars, fetchVars >>

InitTrain ==
  /\ machine = "none"
  /\ InitJob
  /\ NoScript
  /\ NoStore
  /\ NoSim
  /\ NoFetch
  /\ trainImpl \in TrainImpls
  /\ trainProc = IF trainImpl = "store" THEN "Running" ELSE "NotStarted"
  /\ train = trainContext
  /\ trainOp = [type |-> "none"]
  /\ trainPrev = trainContext
  /\ fleet = [i \in TrainImpls |-> trainContext]
  /\ asyncLog = << >>
  /\ effects = << >>
  /\ waited = FALSE

\* trainActor.start()
TrainStart ==
  /\ trainProc = "NotStarted"
  /\ trainProc' = "Running"
  /\ UNCHANGED << trainImpl, train, trainOp, trainPrev, fleet, asyncVars >>
  /\ UNCHANGED notTrain

\* trainActor.send(event), trainStore.send(event)
TrainSend ==
  /\ trainProc = "Running"
  /\ \E event \in TrainEvents :
       /\ event.type = "BOARD" => train.passengers + event.count <= MaxPassengers
       /\ train' = TrainAfter(trainImpl, train, event)
       /\ fleet' = [i \in TrainImpls |-> TrainAfter(i, fleet[i], event)]
       /\ trainOp' = event
  /\ trainPrev' = train
  /\ UNCHANGED << trainImpl, trainProc, asyncVars >>
  /\ UNCHANGED notTrain

NextTrain ==
  \/ TrainStart
  \/ TrainSend

SpecTrain == InitTrain /\ [][NextTrain]_vars

\* ------------------------------------------------------------------------
\* The asynchronous train (blog-xstate-store-effect-ts-async.ts).

MaxAsyncSends == 5

\* the events runSimulation sends, in order
AsyncSimulation ==
  << [type |-> "BOARD", count |-> 50],
     [type |-> "DEPART", destination |-> "North Station"],
     [type |-> "REFUEL", amount |-> 20],
     [type |-> "BOARD", count |-> 30],
     [type |-> "DEPART", destination |-> "South Station"] >>

\* the Effect the depart action returns: a description of the departure,
\* which does nothing until it is run
departEffect(context_, event) ==
  [run |-> FALSE, context |-> context_, destination |-> event.destination]

\* the context after the asynchronous trainMachine has processed `event`:
\* board and refuel are assign actions; depart is a plain action whose
\* returned Effect is neither run nor an assignment
trainAsync(context_, event) ==
  CASE event.type = "BOARD" ->
         [passengers |-> context_.passengers + event.count,
          fuel |-> context_.fuel,
          atStation |-> context_.atStation]
    [] event.type = "DEPART" -> context_
    [] event.type = "REFUEL" ->
         [passengers |-> context_.passengers,
          fuel |-> Min(context_.fuel + event.amount, 100),
          atStation |-> context_.atStation]

InitAsync ==
  /\ machine = "none"
  /\ InitJob
  /\ NoScript
  /\ NoStore
  /\ NoSim
  /\ NoFetch
  /\ trainImpl = "async"
  /\ trainProc = "NotStarted"
  /\ train = trainContext
  /\ trainOp = [type |-> "none"]
  /\ trainPrev = trainContext
  /\ fleet = << >>
  /\ asyncLog = << >>
  /\ effects = << >>
  /\ waited = FALSE

\* trainActor.start()
AsyncStart ==
  /\ trainProc = "NotStarted"
  /\ trainProc' = "Running"
  /\ UNCHANGED << trainImpl, train, trainOp, trainPrev, fleet, asyncVars >>
  /\ UNCHANGED notTrain

\* trainActor.send(event)
AsyncSend ==
  /\ trainProc = "Running"
  /\ Len(asyncLog) < MaxAsyncSends
  /\ \E event \in TrainEvents :
       /\ event.type = "BOARD" => train.passengers + event.count <= MaxPassengers
       /\ train' = trainAsync(train, event)
       /\ effects' = IF event.type = "DEPART"
                     THEN Append(effects, departEffect(train, event))
                     ELSE effects
       /\ asyncLog' = Append(asyncLog, event)
       /\ trainOp' = event
  /\ trainPrev' = train
  /\ waited' = FALSE
  /\ UNCHANGED << trainImpl, trainProc, fleet >>
  /\ UNCHANGED notTrain

\* await new Promise((resolve) => setTimeout(resolve, 2500)): every timer
\* of an Effect that was run has fired by then
AsyncWait ==
  /\ trainProc = "Running"
  /\ asyncLog # << >>
  /\ ~waited
  /\ waited' = TRUE
  /\ train' = IF effects # << >> /\ effects[Len(effects)].run
              THEN departTrain(effects[Len(effects)].context,
                               effects[Len(effects)])
              ELSE train
  /\ UNCHANGED << trainImpl, trainProc, trainOp, trainPrev, fleet, asyncLog,
                  effects >>
  /\ UNCHANGED notTrain

NextAsync ==
  \/ AsyncStart
  \/ AsyncSend
  \/ AsyncWait

SpecAsync == InitAsync /\ [][NextAsync]_vars

\* ------------------------------------------------------------------------
\* Properties of the job machine.

Running(s) == s.status = "active"
WasSend == lastOp.op = "send"
SentType(type) == lastOp.op = "send" /\ lastOp.event.type = type
Now == actor.snapshot

\* the event types each state declares, read off the two machine
\* definitions
DeclaredTypes(m, value) ==
  CASE value = "start" -> {"CREATE_ASSET"}
    [] value = "creatingAsset" ->
         IF m = "events" THEN {"ASSET_CREATED", "ERROR"}
         ELSE {DoneType("createAsset"), ErrorType("createAsset")}
    [] value = "uploadingAsset" ->
         IF m = "events" THEN {"ASSET_UPLOADED", "ERROR"}
         ELSE {DoneType("uploadAsset"), ErrorType("uploadAsset")}
    [] value = "emailingClient" ->
         IF m = "events" THEN {"EMAIL_SENT", "ERROR"}
         ELSE {DoneType("emailClient"), ErrorType("emailClient")}
    [] value = "error" -> {"RETRY"}
    [] OTHER -> {}

\* C1: in either job machine, an event whose type the current state does
\* not declare leaves the value, every context field and the status as they
\* were, and raises no error.
UndeclaredEventIsNoOp ==
  (WasSend /\ lastOp.event.type \notin DeclaredTypes(machine, prev.value))
    => /\ Now.value = prev.value
       /\ Now.context = prev.context
       /\ Now.status = prev.status
       /\ Now.error = JUndef

\* UPLOAD_ASSET was sent to a running actor in uploadingAsset
UndeclaredEventSent ==
  /\ SentType("UPLOAD_ASSET")
  /\ prev.value = "uploadingAsset"
  /\ Running(prev)
  /\ Now.value = "uploadingAsset"

\* C2: in a reachable error snapshot of a running actor, RETRY goes to
\* creatingAsset if assetId is null, else to uploadingAsset if uploadUrl is
\* null, else to emailingClient; it is never a no-op.
RetryRoutesByProgress ==
  (SentType("RETRY") /\ prev.value = "error" /\ Running(prev))
    => Now.value =
         IF prev.context.assetId = JNull THEN "creatingAsset"
         ELSE IF prev.context.uploadUrl = JNull THEN "uploadingAsset"
         ELSE "emailingClient"

\* RETRY was sent in an error state with both assetId and uploadUrl set
RetriedTheEmail ==
  /\ SentType("RETRY")
  /\ prev.value = "error"
  /\ prev.context.assetId # JNull
  /\ prev.context.uploadUrl # JNull
  /\ Now.value = "emailingClient"

\* C3: for any context at all, RETRY in the error state takes the first
\* candidate in declaration order whose guard holds, and is a no-op when
\* none holds.
RetryTakesFirstMatch ==
  (SentType("RETRY") /\ prev.value = "error" /\ Running(prev))
    => /\ Now.context = prev.context
       /\ Now.value =
            IF prev.context.assetId = JNull THEN "creatingAsset"
            ELSE IF prev.context.assetId # JNull
                    /\ prev.context.uploadUrl = JNull THEN "uploadingAsset"
            ELSE IF prev.context.uploadUrl # JNull
                    /\ prev.context.emailSent = JBool(FALSE)
                 THEN "emailingClient"
            ELSE "error"

\* RETRY was sent where the first and the third guard both hold
RetriedWithOverlappingGuards ==
  /\ SentType("RETRY")
  /\ prev.value = "error"
  /\ Running(prev)
  /\ prev.context.assetId = JNull
  /\ prev.context.uploadUrl # JNull
  /\ prev.context.emailSent = JBool(FALSE)
  /\ Now.value = "creatingAsset"

Scenario1Values ==
  << "creatingAsset", "error", "creatingAsset", "uploadingAsset" >>

\* C4: from the initial snapshot, CREATE_ASSET, ERROR{m}, RETRY,
\* ASSET_CREATED{a} visit creatingAsset, error, creatingAsset,
\* uploadingAsset; assetId is null in the error snapshot and a at the end;
\* error is m after ERROR and null after ASSET_CREATED.
Scenario1Visits ==
  /\ \A i \in 1..Len(log) : i <= 4 => log[i].value = Scenario1Values[i]
  /\ Len(log) >= 2 =>
       /\ log[2].context.assetId = JNull
       /\ log[2].context.error = script[3].event.message
  /\ Len(log) >= 4 =>
       /\ log[4].context.assetId = script[5].event.assetId
       /\ log[4].context.error = JNull

\* the first scenario has just finished
Scenario1Done ==
  /\ pc = 5
  /\ Len(log) = 4
  /\ log[4].event.type = "ASSET_CREATED"

Restored(s) == RestoreSnapshot(JSONparse(serializeState(s)))

\* C5: parsing the text serializeState produces gives back the snapshot's
\* status, value and every context field, null and false included.
SerializeRoundTrip ==
  /\ Restored(Now).status = Now.status
  /\ Restored(Now).value = Now.value
  /\ Restored(Now).context.assetId = Now.context.assetId
  /\ Restored(Now).context.uploadUrl = Now.context.uploadUrl
  /\ Restored(Now).context.emailSent = Now.context.emailSent
  /\ Restored(Now).context.error = Now.context.error

\* a snapshot with a string, a null and a false field has been saved
SavedSnapshotWithNulls ==
  /\ Now.value = "uploadingAsset"
  /\ Now.context.assetId # JNull
  /\ Now.context.uploadUrl = JNull
  /\ Now.context.emailSent = JBool(FALSE)
  /\ remoteState = serializeState(Now)

\* C6: the actor rebuilt by simulateStopAndRestart has the value and context
\* the stopped actor had, and from then on it goes through the same values
\* and contexts as an actor that was never stopped.
RestartIsTransparent ==
  machine = "events" =>
    /\ Now.value = reference.snapshot.value
    /\ Now.context = reference.snapshot.context
    /\ lastOp.op = "restart" =>
         Now.value = prev.value /\ Now.context = prev.context

\* an actor resumed in uploadingAsset got ASSET_UPLOADED
ResumedActorUploaded ==
  /\ actor.restored
  /\ SentType("ASSET_UPLOADED")
  /\ prev.value = "uploadingAsset"
  /\ Now.value = "emailingClient"
  /\ Now.context.assetId # JNull
  /\ Now.context.uploadUrl = lastOp.event.uploadUrl

\* C8: status is done exactly when the value is the final state complete.
DoneIffComplete == (Now.status = "done") <=> (Now.value = "complete")

\* the machine has completed
ReachedComplete == Now.value = "complete" /\ Now.status = "done"

\* C9 as stated: status is errored exactly when the value is error.
ErroredIffErrorState == (Now.status = "error") <=> (Now.value = "error")

\* C9, amended: no snapshot is ever errored; the error state is an
\* ordinary state whose snapshot is active (stopped once the actor is
\* stopped), and every invocation failure is handled by going there.
ErrorStateIsNotErrored ==
  /\ Now.status # "error"
  /\ Now.value = "error" => Now.status \in {"active", "stopped"}
  /\ (WasSend /\ IsErrorActorEvent(lastOp.event) /\ Running(prev))
       => Now.value = "error" /\ Now.status = "active"

\* an invocation has failed and the machine is in its error state
InvocationFailed ==
  /\ WasSend
  /\ IsErrorActorEvent(lastOp.event)
  /\ Now.value = "error"
  /\ Now.status = "active"

\* C10: once the value is complete, no event and no stop/restart changes
\* the value or any context field.
CompleteIsAbsorbing ==
  [][Now.value = "complete"
       => /\ actor'.snapshot.value = "complete"
          /\ actor'.snapshot.context = Now.context]_vars

\* the actor was stopped and restarted after completion
ActedAfterComplete ==
  /\ prev.value = "complete"
  /\ lastOp.op = "restart"
  /\ Now.value = "complete"

\* ------------------------------------------------------------------------
\* Properties of subscription, ordering, stopping and invocation.

RECURSIVE CallsTo(_, _)
\* the snapshots subscriber `id` was called with, in order
CallsTo(cs, id) ==
  IF cs = << >> THEN << >>
  ELSE IF Head(cs).sub = id
       THEN << Head(cs).snapshot >> \o CallsTo(Tail(cs), id)
       ELSE CallsTo(Tail(cs), id)

\* the snapshots published while subscription r was attached
PublishedDuring(r) ==
  SubSeq(published, r.from + 1, IF r.to = -1 THEN Len(published) ELSE r.to)

\* C11 as stated: a subscriber is called once at once with the current
\* snapshot, then once per later snapshot until it is unsubscribed.
SubscribeCallsImmediately ==
  \A i \in DOMAIN subscriptions :
    CallsTo(calls, subscriptions[i].sub)
      = << subscriptions[i].at >> \o PublishedDuring(subscriptions[i])

\* C11, amended: subscribing only registers the callback; it is called
\* once for each snapshot published afterwards, in order, until it is
\* unsubscribed or the actor ends, and never after that.
SubscriberSeesLaterSnapshotsOnly ==
  \A i \in DOMAIN subscriptions :
    CallsTo(calls, subscriptions[i].sub) = PublishedDuring(subscriptions[i])

\* a waitForCompletion subscriber was called twice, unsubscribed, and
\* snapshots were published after that
UnsubscribedThenPublished ==
  \E i \in DOMAIN subscriptions :
    /\ subscriptions[i].sub # RemoteSub
    /\ subscriptions[i].to # -1
    /\ subscriptions[i].to < Len(published)
    /\ Len(CallsTo(calls, subscriptions[i].sub)) >= 2

\* C12: events are processed one at a time in the order sent; the first
\* subscriber receives exactly the committed snapshots, one per event and
\* in order, each before the next event is processed.
ProcessedInOrder ==
  /\ actor.proc # "NotStarted" => Len(published) = 1 + Len(events)
  /\ \A i \in 1..Len(events) :
       /\ i + 1 <= Len(published)
       /\ published[i + 1] = Transition(machine, published[i], events[i])
  /\ sim \notin {"off", "created"} => CallsTo(calls, RemoteSub) = published

\* several events were processed, one of them changing nothing
ProcessedSeveralEvents ==
  /\ Len(events) >= 4
  /\ Len(published) >= 3
  /\ events[2].type = "CREATE_ASSET"
  /\ published[3] = published[2]

\* C13: when a waitForCompletion subscriber is called with a complete or
\* error snapshot, the first subscriber has already saved that snapshot,
\* so the remote state holds it before RETRY is sent.
RemoteSavedBeforeWaiter ==
  /\ resolved # << >> =>
       resolved[1].remote = serializeState(resolved[1].state)
  /\ sim = "resolved" => remoteState = serializeState(resolved[1].state)

\* waitForCompletion has resolved with an error snapshot
WaiterSawError ==
  /\ sim = "resolved"
  /\ resolved[1].state.value = "error"

\* C14: once an actor is stopped, its snapshot never changes and its
\* subscriber is not called again, whether an event is sent to it or a
\* pending invocation settles; nothing fails.
StoppedActorIsInert ==
  [][(actor.proc = "Stopped" /\ lastOp'.op # "restart")
       => /\ actor' = actor
          /\ remoteState' = remoteState]_vars

\* an invocation that was pending at stop() settled afterwards
SettledAfterStop ==
  /\ lastOp.op = "settle"
  /\ actor.proc = "Stopped"
  /\ Now.status = "stopped"
  /\ Now.value \in Working

\* the entries into a working state, counted in the published snapshots
Entries ==
  {i \in 1..Len(published) :
     /\ published[i].value \in Working
     /\ i > 1 => published[i - 1].value # published[i].value}

\* the done and error events of invocations among the processed events
TerminalEvents ==
  {i \in 1..Len(events) :
     \E src \in {"createAsset", "uploadAsset", "emailClient"} :
       events[i].type \in {DoneType(src), ErrorType(src)}}

Pending == {i \in DOMAIN invocations : invocations[i].fate = "pending"}


\* C15: every entry into creatingAsset, uploadingAsset or emailingClient
\* starts exactly one invocation, which delivers exactly one terminal
\* event, done or error, and that event moves the machine out of the
\* state.  A settled invocation stays settled, so "none stays pending" is
\* "again and again nothing is pending".
OneInvocationPerEntry ==
  /\ [](/\ Len(invocations) = Cardinality(Entries)
        /\ \A i \in DOMAIN invocations :
             \/ invocations[i].fate \in {"done", "error"}
             \/ invocations[i].fate = "pending" /\ i = Len(invocations)
        /\ Cardinality(TerminalEvents) = Len(invocations) - Cardinality(Pending)
        /\ \A i \in TerminalEvents :
             /\ i + 1 <= Len(published)
             /\ published[i].value \in Working
             /\ events[i].type \in {DoneType(InvokeSrc(published[i].value)),
                                    ErrorType(InvokeSrc(published[i].value))}
             /\ published[i + 1].value # published[i].value)
  /\ []<>(Pending = {})

\* a retry entered uploadingAsset again and its invocation was settled
RetriedInvocationSettled ==
  /\ retryCount >= 1
  /\ Len(invocations) >= 3
  /\ invocations[2].src = "uploadAsset"
  /\ invocations[2].fate = "error"
  /\ invocations[3].src = "uploadAsset"
  /\ invocations[3].fate = "done"

\* C17: a failing invocation moves the invoked machine to error with the
\* failure's message in context.error and the other context fields as
\* they were; the actor keeps running.
FailureGoesToError ==
  (machine = "invoked" /\ WasSend /\ IsErrorActorEvent(lastOp.event)
     /\ Running(prev))
    => /\ Now.value = "error"
       /\ Now.context = [prev.context EXCEPT !.error = lastOp.event.error.message]
       /\ Now.status = "active"
       /\ actor.proc = "Running"

\* the email invocation failed with assetId and uploadUrl already set
EmailInvocationFailed ==
  /\ WasSend
  /\ lastOp.event.type = ErrorType("emailClient")
  /\ prev.value = "emailingClient"
  /\ Now.value = "error"
  /\ Now.context.assetId # JNull
  /\ Now.context.uploadUrl # JNull

ErrorEventIn(value, m) ==
  IF machine = "invoked"
  THEN [type |-> ErrorType(InvokeSrc(value)), error |-> [message |-> m]]
  ELSE [type |-> "ERROR", message |-> m]

\* C19: from every reachable working snapshot, ERROR followed by RETRY
\* comes back to the same value with assetId, uploadUrl and emailSent
\* unchanged; only context.error differs and holds the message.
ResumableRetry ==
  (actor.proc = "Running" /\ Now.value \in Working)
    => \A m \in Messages :
         LET failed == Transition(machine, Now, ErrorEventIn(Now.value, m))
             retried == Transition(machine, failed, [type |-> "RETRY"])
         IN /\ failed.value = "error"
            /\ retried.value = Now.value
            /\ retried.status = "active"
            /\ retried.context = [Now.context EXCEPT !.error = m]

\* RETRY brought the machine back to uploadingAsset, the message kept
RetriedTheUpload ==
  /\ SentType("RETRY")
  /\ prev.value = "error"
  /\ Now.value = "uploadingAsset"
  /\ Now.context.error # JNull
  /\ Now.context = prev.context

\* C20: in the invoked program at most one invocation is in flight, one is
\* in flight exactly when the value is a working state, and the
\* CREATE_ASSET that runSimulation sends again neither restarts it nor
\* starts another.
OneInvocationInFlight ==
  /\ [](/\ Cardinality(Pending) <= 1
        /\ (Pending # {}) <=> (actor.proc = "Running" /\ Now.value \in Working)
        /\ Pending # {} =>
             invocations[Len(invocations)].src = InvokeSrc(Now.value))
  /\ [][(lastOp'.op = "send" /\ lastOp'.event.type = "CREATE_ASSET"
           /\ Now.value # "start")
          => invocations' = invocations]_vars

\* CREATE_ASSET was sent again while uploadAsset was in flight
ResentCreateAsset ==
  /\ sim = "attempt"
  /\ retryCount >= 1
  /\ SentType("CREATE_ASSET")
  /\ Now.value = "uploadingAsset"
  /\ Pending # {}

\* the entries into value v in a sequence of logged values
EntriesOf(values, v) ==
  {i \in 1..Len(values) : values[i] = v /\ (i > 1 => values[i - 1] # v)}

Settled(ts) == {i \in DOMAIN ts : ts[i].fate # "armed"}

\* C16: the delayed transition of `failure` is armed on entry and disarmed
\* on exit; a timer cancelled by RETRY never fires; every entry into
\* `failure` causes exactly one transition to `loading` and one fetchUser
\* invocation; a timer moves the machine only from `failure`.
FailureTimerArmedAndDisarmed ==
  /\ [](/\ \A i \in DOMAIN timers :
             timers[i].fate = "armed"
               <=> (i = Len(timers) /\ fetchActor.snapshot.value = "failure")
        /\ Len(timers) = Cardinality(EntriesOf(seen, "failure"))
        /\ Len(fetches) = Cardinality(EntriesOf(seen, "loading"))
        /\ Len(fetches)
             = (IF fetches = << >> THEN 0 ELSE 1) + Cardinality(Settled(timers)))
  /\ [][/\ \A i \in DOMAIN timers :
             timers[i].fate = "cancelled" => timers'[i].fate = "cancelled"
        /\ fetchOp'.op = "after" =>
             /\ fetchActor.snapshot.value = "failure"
             /\ fetchActor'.snapshot.value = "loading"]_vars

\* RETRY left `failure` before the delay, and a later timer fired
RetryBeatTheTimer ==
  \E i, j \in DOMAIN timers :
    /\ i < j
    /\ timers[i].fate = "cancelled"
    /\ timers[j].fate = "fired"

\* C18: DEPART is guarded by fuel >= 10: with enough fuel it takes 10 off
\* the fuel and sets atStation, passengers unchanged; with less it changes
\* nothing; BOARD 50 then DEPART North Station from the initial context
\* gives 50 passengers, fuel 90, at North Station.
DepartGuardedByFuel ==
  /\ trainOp.type = "DEPART" =>
       IF trainPrev.fuel >= 10
       THEN /\ train.fuel = trainPrev.fuel - 10
            /\ train.atStation = trainOp.destination
            /\ train.passengers = trainPrev.passengers
       ELSE train = trainPrev
  /\ trainImpl \in TrainImpls =>
       TrainAfter(trainImpl,
                  TrainAfter(trainImpl, trainContext,
                             [type |-> "BOARD", count |-> 50]),
                  [type |-> "DEPART", destination |-> "North Station"])
         = [passengers |-> 50, fuel |-> 90, atStation |-> "North Station"]

\* DEPART was sent with less than 10 fuel left
DepartedWithoutFuel ==
  /\ trainOp.type = "DEPART"
  /\ trainPrev.fuel < 10
  /\ trainPrev.fuel > 0
  /\ trainPrev.passengers = 50
  /\ train = trainPrev

\* the RETRY events among the processed events
Retries == {i \in 1..Len(events) : events[i].type = "RETRY"}

\* C21: the invoked simulation terminates: actor.stop() is eventually
\* called; RETRY is sent at most 3 times and retryCount never exceeds 3;
\* at the end the value is complete or error, error only with
\* retryCount = 3.
SimulationTerminates ==
  /\ [](/\ retryCount <= 3
        /\ Cardinality(Retries) <= 3
        /\ Cardinality(Retries) = retryCount
        /\ sim \in {"finished", "stopped"} =>
             /\ Now.value \in {"complete", "error"}
             /\ Now.value = "error" => retryCount = 3
        /\ sim = "stopped" => actor.proc = "Stopped")
  /\ <>(sim = "stopped")

\* the simulation gave up after three retries and stopped the actor
StoppedAfterThreeRetries ==
  /\ sim = "stopped"
  /\ Now.value = "error"
  /\ Now.status = "stopped"
  /\ retryCount = 3

\* C24: value and context agree in every snapshot of the job machines,
\* reached by events or by stop and restart from the remote state.
StateMatchesContext ==
  /\ Now.value \in {"start", "creatingAsset"} => Now.context.assetId = JNull
  /\ Now.value = "uploadingAsset" =>
       /\ Now.context.assetId # JNull
       /\ Now.context.uploadUrl = JNull
  /\ Now.value = "emailingClient" =>
       /\ Now.context.assetId # JNull
       /\ Now.context.uploadUrl # JNull
       /\ Now.context.emailSent = JBool(FALSE)
  /\ Now.value = "complete" =>
       /\ Now.context.assetId # JNull
       /\ Now.context.uploadUrl # JNull
       /\ Now.context.emailSent = JBool(TRUE)
       /\ Now.context.error = JNull
  /\ Now.value = "error" =>
       /\ Now.context.emailSent = JBool(FALSE)
       /\ Now.context.error # JNull
  /\ Now.context.uploadUrl # JNull => Now.context.assetId # JNull

\* a restarted actor is in emailingClient after a failure and a retry
RestartedWhileEmailing ==
  /\ lastOp.op = "restart"
  /\ Now.value = "emailingClient"
  /\ Now.context.error # JNull

\* C25: assetId and uploadUrl, once set, never change, and emailSent never
\* goes back to false, across ERROR/RETRY and stop/restart; complete is
\* entered from emailingClient only, with the three steps done in order.
ProgressNeverLost ==
  /\ [](/\ Now.context.emailSent = JBool(TRUE) => Now.context.uploadUrl # JNull
        /\ Now.context.uploadUrl # JNull => Now.context.assetId # JNull
        /\ Now.value = "complete" => Now.context.emailSent = JBool(TRUE))
  /\ [][/\ Now.context.assetId # JNull =>
             actor'.snapshot.context.assetId = Now.context.assetId
        /\ Now.context.uploadUrl # JNull =>
             actor'.snapshot.context.uploadUrl = Now.context.uploadUrl
        /\ Now.context.emailSent = JBool(TRUE) =>
             actor'.snapshot.context.emailSent = JBool(TRUE)
        /\ (actor'.snapshot.value = "complete" /\ Now.value # "complete") =>
             Now.value = "emailingClient"]_vars

\* a restarted actor has completed the pipeline
CompletedAfterRestart ==
  /\ Now.value = "complete"
  /\ actor.restored
  /\ lastOp.op = "send"
  /\ prev.value = "emailingClient"
  /\ prev.context.error # JNull

\* C27: in the fetch machine data is set exactly in success, name never
\* changes, and nothing changes the snapshot once success is reached.
FetchSuccessIsAbsorbing ==
  /\ [](/\ fetchActor.snapshot.context.data # JNull
             <=> fetchActor.snapshot.value = "success"
        /\ fetchActor.snapshot.context.name = "World")
  /\ [][fetchActor.snapshot.value = "success"
          => fetchActor'.snapshot = fetchActor.snapshot]_vars

\* an event was sent to the machine in success, reached after a failure
SentAfterSuccess ==
  /\ fetchActor.snapshot.value = "success"
  /\ fetchOp.op = "send"
  /\ fetchOp.from = "success"
  /\ timers # << >>
  /\ fetchActor.snapshot.context.data = Greeting("World")

\* C22: in the asynchronous train a DEPART sent with fuel >= 10 has, once
\* the departure delay has passed, taken 10 off the fuel and set
\* atStation, so that the simulation ends with fuel below 100 at South
\* Station.
AsyncDepartTakesEffect ==
  /\ (waited /\ trainOp.type = "DEPART" /\ trainPrev.fuel >= 10) =>
       /\ train.fuel = trainPrev.fuel - 10
       /\ train.atStation = trainOp.destination
  /\ (waited /\ asyncLog = AsyncSimulation) =>
       /\ train.fuel < 100
       /\ train.atStation = "South Station"

\* C23: the guarded machine, the Immer store, the fromStore actor and the
\* Effect machine have identical contexts after every prefix of every
\* sequence of BOARD, DEPART and REFUEL events.
TrainsAgree ==
  /\ \A i, j \in DOMAIN fleet : fleet[i] = fleet[j]
  /\ \A i \in DOMAIN fleet : fleet[i] = train

\* the four trains have boarded, departed until the fuel ran out and been
\* refused a departure
TrainsRefusedDeparture ==
  /\ DOMAIN fleet = TrainImpls
  /\ trainOp.type = "DEPART"
  /\ trainPrev.fuel = 5
  /\ trainPrev.passengers = 80
  /\ \A i \in TrainImpls : fleet[i] = trainPrev

\* C26: the fuel stays within 0..100; it changes only by -10 on DEPART or
\* by the refuel amount capped at 100 on REFUEL.
FuelWithinRange ==
  /\ train.fuel \in 0..100
  /\ \A i \in DOMAIN fleet : fleet[i].fuel \in 0..100
  /\ train.fuel # trainPrev.fuel =>
       \/ trainOp.type = "DEPART" /\ train.fuel = trainPrev.fuel - 10
       \/ /\ trainOp.type = "REFUEL"
          /\ train.fuel = IF trainPrev.fuel + trainOp.amount > 100 THEN 100
                          ELSE trainPrev.fuel + trainOp.amount

\* a REFUEL was capped at 100
RefuelWasCapped ==
  /\ trainOp.type = "REFUEL"
  /\ trainPrev.fuel = 90
  /\ trainOp.amount = 20
  /\ train.fuel = 100

\* ------------------------------------------------------------------------
\* Properties of the example stores.

\* C7: in every variant of the example store, a context read from an
\* earlier snapshot keeps the count and the todos it had, whatever inc and
\* addTodo events are processed afterwards.
HeldContextUnchanged ==
  /\ held.count = heldValue.count
  /\ heap[held.todos] = heldValue.todos

====
